---- MODULE Spec2Model ----
(***************************************************************************)
(* Retrieval pipeline of the document Q&A backend:                         *)
(*   services/rag.py      chunk_document, generate_chunk_contexts,         *)
(*                        embed_texts, process_document, search_chunks     *)
(*   services/document.py upload_document                                  *)
(*                                                                         *)
(* Text is modelled as a sequence of items: a page-marker line             *)
(* "--- Page n ---", a non-blank paragraph with its token count, or a      *)
(* blank (whitespace-only) paragraph.  Items are separated by blank lines. *)
(***************************************************************************)
EXTENDS Integers, Sequences, FiniteSets, TLC

\* ------------------------------------------------------------------------
\* Bounds of the model
\* ------------------------------------------------------------------------
MaxItems == 4
MaxUploads == 2
NumConvs == 2
MaxRows == 22
MaxCite == 4
MaxToolCalls == 2
MaxParts == 2
MaxDocs == 702

\* ------------------------------------------------------------------------
\* Program constants
\* ------------------------------------------------------------------------
CHUNK_TARGET_TOKENS == 500
CHUNK_OVERLAP_TOKENS == 50
RRF_K == 60
RANK_LIMIT == 20

\* Text values are tuples: the empty string is <<>>, Python's None is
\* <<"None">>, the JSON string "null" is <<"null">>.
None == <<"None">>
EmptyStr == <<>>
NullStr == <<"null">>

VARIABLES
    extracted_text,   \* chunker: the text handed to chunk_document
    chunk_pc,         \* chunker: "input" before the call, "done" after it
    chunks,           \* chunker: the list chunk_document returned
    documents,        \* committed rows of table documents
    document_chunks,  \* committed rows of table document_chunks
    up,               \* upload_document requests: position and locals of each
    search,           \* the search_chunks call in flight: position and locals
    answer,           \* an answer text and what a citation function made of it
    conversations,    \* ids of the committed rows of table conversations
    removed,          \* ids of the documents deleted so far
    chat              \* the send_message stream in flight: position and locals

chunkVars == <<extracted_text, chunk_pc, chunks>>
dbVars == <<documents, document_chunks>>
convVars == <<conversations, removed>>

vars == <<extracted_text, chunk_pc, chunks, documents, document_chunks, up, search, answer,
          conversations, removed, chat>>

\* ------------------------------------------------------------------------
\* Text items
\* ------------------------------------------------------------------------
PageNumbers == {1, 2}
ParaTokens == {30, 50, 51, 250, 480, 501}

Marker(n) == [k |-> "marker", n |-> n, tok |-> 0]
Para(t) == [k |-> "para", n |-> 0, tok |-> t]
Blank == [k |-> "blank", n |-> 0, tok |-> 0]

\* A paragraph that starts in a legal-heading form ("ARTICLE 2", "SECTION 2",
\* "2. ..."): to chunk_document a paragraph like any other; n is the number
\* its label carries (n = 0 marks a paragraph that is no heading).
SectionNumbers == {1, 2}
Heading(n) == [k |-> "para", n |-> n, tok |-> 30]

Items ==
    {Marker(n) : n \in PageNumbers} \cup {Para(t) : t \in ParaTokens}
        \cup {Heading(n) : n \in SectionNumbers} \cup {Blank}

Texts == UNION {[1..m -> Items] : m \in 0..MaxItems}

\* An item of the text together with its position (its identity as a paragraph).
At(text, i) == [k |-> text[i].k, n |-> text[i].n, tok |-> text[i].tok, pos |-> i]

\* len(encoder.encode(para)): a paragraph's token count; a marker line read
\* as a paragraph is a handful of tokens.
_count_tokens(para) == IF para.k = "marker" THEN 5 ELSE para.tok

\* str.strip() is non-empty: the segment holds something that is not whitespace.
NonBlank(body) == \E i \in 1..Len(body) : body[i].k # "blank"

\* PAGE_MARKER_RE.split(extracted_text): [pre-text, num, text, num, text, ...],
\* here a sequence of segments, the first one the pre-text (num 0).
PageMarkerSplit(text) ==
    LET RECURSIVE Go(_, _, _)
        Go(i, cur, out) ==
            IF i > Len(text) THEN Append(out, cur)
            ELSE IF text[i].k = "marker"
                 THEN Go(i + 1, [num |-> text[i].n, body |-> <<>>], Append(out, cur))
                 ELSE Go(i + 1, [cur EXCEPT !.body = Append(@, At(text, i))], out)
    IN Go(1, [num |-> 0, body |-> <<>>], <<>>)

\* The (page_num, page_text) list chunk_document builds, with its fallback.
Pages(text) ==
    LET parts == PageMarkerSplit(text)
        pre == IF NonBlank(parts[1].body)
               THEN <<[num |-> 1, body |-> parts[1].body]>>
               ELSE <<>>
        rest == SelectSeq(Tail(parts), LAMBDA s : NonBlank(s.body))
        pages == pre \o rest
    IN IF pages = <<>>
       THEN <<[num |-> 1, body |-> [i \in 1..Len(text) |-> At(text, i)]]>>
       ELSE pages

\* The paragraph loop of one page: flush when the next paragraph would exceed
\* the target, carry the last part over when it is small, flush the rest.
ChunkInfo(parts, page_num, tokens) ==
    [content |-> parts, page_number |-> page_num, section_header |-> None,
     token_count |-> tokens]

KeepOverlap(current_chunk_parts) ==
    /\ current_chunk_parts # <<>>
    /\ _count_tokens(current_chunk_parts[Len(current_chunk_parts)]) <= CHUNK_OVERLAP_TOKENS

ShouldFlush(current_tokens, para_tokens) ==
    current_tokens > 0 /\ current_tokens + para_tokens > CHUNK_TARGET_TOKENS

ChunkPage(page_num, paragraphs, chunks0) ==
    LET RECURSIVE Loop(_, _, _, _)
        Loop(i, parts, tokens, out) ==
            IF i > Len(paragraphs)
            THEN IF parts # <<>> THEN Append(out, ChunkInfo(parts, page_num, tokens)) ELSE out
            ELSE LET para == paragraphs[i]
                     para_tokens == _count_tokens(para)
                 IN IF para.k = "blank" THEN Loop(i + 1, parts, tokens, out)
                    ELSE IF ShouldFlush(tokens, para_tokens)
                    THEN LET flushed == Append(out, ChunkInfo(parts, page_num, tokens))
                             last == parts[Len(parts)]
                         IN IF KeepOverlap(parts)
                            THEN Loop(i + 1, <<last, para>>,
                                      _count_tokens(last) + para_tokens, flushed)
                            ELSE Loop(i + 1, <<para>>, para_tokens, flushed)
                    ELSE Loop(i + 1, Append(parts, para), tokens + para_tokens, out)
    IN Loop(1, <<>>, 0, chunks0)

chunk_document(text) ==
    IF ~NonBlank(text) THEN <<>>
    ELSE LET pages == Pages(text)
             RECURSIVE PerPage(_, _)
             PerPage(p, out) ==
                 IF p > Len(pages) THEN out
                 ELSE PerPage(p + 1, ChunkPage(pages[p].num, pages[p].body, out))
         IN PerPage(1, <<>>)

\* ------------------------------------------------------------------------
\* Contextual retrieval: generate_chunk_contexts
\* ------------------------------------------------------------------------
\* What one call of the text-generation collaborator for chunk i can end in:
\*   error      the call raises (error, timeout)
\*   text       a reply that is not JSON
\*   nonobject  a reply that is valid JSON but no object (string, list, null)
\*   object     a JSON object; context and section as given ("" when absent)
Reply(kind, raw, context, section) ==
    [kind |-> kind, raw |-> raw, context |-> context, section |-> section]

Replies(i) ==
    {Reply("error", EmptyStr, EmptyStr, None),
     Reply("text", <<"raw", i>>, EmptyStr, None),
     Reply("nonobject", <<"raw", i>>, EmptyStr, None)}
    \cup {Reply("object", <<"raw", i>>, c, sec) :
            c \in {EmptyStr, <<"ctx", i>>},
            sec \in {None, EmptyStr, NullStr, <<"sec", i>>}}

\* The replies drawn while several requests interleave: a well-formed object
\* and, for the first chunk, a failed call.
SampleReplies(i) ==
    {Reply("object", <<"raw", i>>, <<"ctx", i>>, <<"sec", i>>)}
    \cup (IF i = 1 THEN {Reply("error", EmptyStr, EmptyStr, None)} ELSE {})

\* All sequences of n replies, the i-th one a reply to the prompt for chunk i,
\* drawn from every reply shape (all) or from a sample of them.
ReplySeqs(n, all) ==
    LET RS(i) == IF all THEN Replies(i) ELSE SampleReplies(i)
    IN {q \in [1..n -> UNION {RS(i) : i \in 1..n}] : \A i \in 1..n : q[i] \in RS(i)}

ChunkMetadata(context, section) == [context |-> context, section |-> section]

\* Variant: a failed call leaves no entry behind.
OnEnrichExceptionSkip(results) == results

\* except Exception: the empty metadata appended for the chunk.
OnEnrichException(results) == Append(results, ChunkMetadata(EmptyStr, None))

\* except JSONDecodeError: the raw reply becomes the context.
OnJSONDecodeError(results, reply) == Append(results, ChunkMetadata(reply.raw, None))

\* One iteration of the loop over chunks: the collaborator call and what is
\* appended to results.  parsed.get on a JSON value that is no object raises
\* AttributeError, caught by the outer except.
EnrichOne(results, reply) ==
    CASE reply.kind = "error" -> OnEnrichException(results)
      [] reply.kind = "nonobject" -> OnEnrichException(results)
      [] reply.kind = "text" -> OnJSONDecodeError(results, reply)
      [] OTHER ->
            Append(results,
                   ChunkMetadata(reply.context,
                                 IF reply.section \in {None, EmptyStr, NullStr}
                                 THEN None ELSE reply.section))

\* Variant: the first failed call ends the loop.
generate_chunk_contexts_abort(cs, replies) ==
    LET RECURSIVE Loop(_, _)
        Loop(i, results) ==
            IF i > Len(cs) \/ replies[i].kind = "error" THEN results
            ELSE Loop(i + 1, EnrichOne(results, replies[i]))
    IN Loop(1, <<>>)

\* The loop over chunks: one collaborator call per chunk, in chunk order.
generate_chunk_contexts(cs, replies) ==
    LET RECURSIVE Loop(_, _)
        Loop(i, results) ==
            IF i > Len(cs) THEN results ELSE Loop(i + 1, EnrichOne(results, replies[i]))
    IN Loop(1, <<>>)

\* ------------------------------------------------------------------------
\* Documents and uploads
\* ------------------------------------------------------------------------
Uploads == 1..MaxUploads
Convs == 1..NumConvs

\* Extracted texts of the uploaded files: no text at all, and a two-page
\* document that chunks into two chunks.
DocTexts == {<<>>, <<Marker(1), Para(30), Marker(2), Para(250)>>}

\* More texts for a single ingestion: blank pages only (no chunk), one
\* chunk, and three chunks on two pages, the second one with an overlap.
MoreDocTexts ==
    DocTexts \cup {<<Blank>>,
                   <<Marker(1), Para(50)>>,
                   <<Marker(1), Para(30), Para(480), Marker(2), Para(250)>>}

\* "Doc A" .. "Doc Z", "Doc AA", ...: the letters of the label, A = 0.
_LABELS == [i \in 0..25 |-> i]

\* _LABELS[i] with i past the end of the list raises IndexError, which is
\* written as a value that no label has.
IndexError == <<-1>>

_label_for_index(idx) ==
    IF idx < 26 THEN <<_LABELS[idx]>>
    ELSE IF (idx \div 26) - 1 \notin DOMAIN _LABELS THEN IndexError
    ELSE <<_LABELS[(idx \div 26) - 1], _LABELS[idx % 26]>>

IdleUpload ==
    [pc |-> "idle", conversation_id |-> 0, existing_count |-> 0, text |-> <<>>,
     chunks |-> <<>>, metadata |-> <<>>, replies |-> <<>>, vectors |-> 0,
     pending |-> <<>>, failure |-> "none"]

\* The locals of a request are gone once it has returned or was cancelled.
Finished(pc, failure) == [IdleUpload EXCEPT !.pc = pc, !.failure = failure]

\* Variant: upload_document lets the ingestion error through.
RagFailureOutcomeRaised == "raised"

\* upload_document swallows whatever process_document raises and returns the
\* document.
RagFailureOutcome == "returned"

InFlight(r) == r.pc \in {"counted", "process", "embed", "commit"}

\* Variant: the count without its where clause.
DocumentsOfAny(c) == documents

DocumentsOf(c) == {d \in documents : d.conversation_id = c}

\* The rows process_document builds: zip of chunks, metadata and embeddings.
Min2(a, b) == IF a < b THEN a ELSE b

\* Variant: chunk_index counted from 1.
DbChunksFromOne(document_id, cs, metadata, embeddings) ==
    [i \in 1..Min2(Len(cs), Min2(Len(metadata), Len(embeddings))) |->
        [id |-> <<document_id, i - 1>>,
         document_id |-> document_id,
         chunk_index |-> i,
         content |-> cs[i].content,
         context_text |-> IF metadata[i].context # EmptyStr THEN metadata[i].context ELSE None,
         page_number |-> cs[i].page_number,
         section_header |-> metadata[i].section,
         embedding |-> embeddings[i],
         token_count |-> cs[i].token_count]]

DbChunks(document_id, cs, metadata, embeddings) ==
    [i \in 1..Min2(Len(cs), Min2(Len(metadata), Len(embeddings))) |->
        [id |-> <<document_id, i - 1>>,
         document_id |-> document_id,
         chunk_index |-> i - 1,
         content |-> cs[i].content,
         context_text |-> IF metadata[i].context # EmptyStr THEN metadata[i].context ELSE None,
         page_number |-> cs[i].page_number,
         section_header |-> metadata[i].section,
         embedding |-> embeddings[i],
         token_count |-> cs[i].token_count]]

\* The rows one session.commit() makes visible: every row added to the
\* session, in one transaction.
CommitRows(pending) == {pending[i] : i \in 1..Len(pending)}

\* A reply of the embedding collaborator holding n vectors; embed_texts
\* returns one list entry per item of response.data, however many there are.
EmbedReply(n) == [i \in 1..n |-> <<"vec">>]

\* select count() of the conversation's documents; the endpoint answers 404
\* for a conversation that does not exist.
UploadCount(u, TS) ==
    /\ up[u].pc = "idle"
    /\ \E c \in conversations, t \in TS :
           up' = [up EXCEPT ![u] = [@ EXCEPT !.pc = "counted",
                                             !.conversation_id = c,
                                             !.text = t,
                                             !.existing_count = Cardinality(DocumentsOf(c))]]
    /\ UNCHANGED <<convVars, chat, chunkVars, answer, dbVars, search>>

\* session.add(document); commit; refresh.  An empty extracted text is stored
\* as None; every reader tests "not document.extracted_text", which is true
\* of both, so the column holds <<>> for either.
UploadCommit(u) ==
    /\ up[u].pc = "counted"
    /\ _label_for_index(up[u].existing_count) # IndexError
    /\ up[u].conversation_id \in conversations
    /\ documents' = documents \cup
           {[id |-> u,
             conversation_id |-> up[u].conversation_id,
             filename |-> <<"file", u>>,
             label |-> _label_for_index(up[u].existing_count),
             extracted_text |-> up[u].text]}
    /\ up' = [up EXCEPT ![u].pc = "process"]
    /\ UNCHANGED <<convVars, chat, chunkVars, answer, document_chunks, search>>

\* _label_for_index raises: upload_document raises before any row is added.
UploadLabelFail(u) ==
    /\ up[u].pc = "counted"
    /\ _label_for_index(up[u].existing_count) = IndexError
    /\ up' = [up EXCEPT ![u] = Finished("raised", "label")]
    /\ UNCHANGED <<convVars, chat, chunkVars, answer, dbVars, search>>

\* The conversation was deleted in the meantime: the insert violates the
\* foreign key documents.conversation_id and the commit raises.
UploadCommitFail(u) ==
    /\ up[u].pc = "counted"
    /\ up[u].conversation_id \notin conversations
    /\ up' = [up EXCEPT ![u] = Finished("raised", "document")]
    /\ UNCHANGED <<convVars, chat, chunkVars, answer, dbVars, search>>

\* process_document up to the call of embed_texts: the early returns,
\* chunking and the enrichment of every chunk.  Nothing here reads or writes
\* the database.
ProcessDocument(u, all) ==
    /\ up[u].pc = "process"
    /\ LET cs == chunk_document(up[u].text)
       IN IF up[u].text = <<>> \/ cs = <<>>
          THEN up' = [up EXCEPT ![u] = Finished("returned", "none")]
          ELSE \E replies \in ReplySeqs(Len(cs), all) :
                   up' = [up EXCEPT ![u] =
                             [@ EXCEPT !.pc = "embed",
                                       !.chunks = cs,
                                       !.replies = replies,
                                       !.metadata = generate_chunk_contexts(cs, replies)]]
    /\ UNCHANGED <<convVars, chat, chunkVars, answer, dbVars, search>>

\* embed_texts returns; the rows are built and added to the session.
EmbedOk(u) ==
    /\ up[u].pc = "embed"
    /\ up' = [up EXCEPT ![u] =
                 [@ EXCEPT !.pc = "commit",
                           !.vectors = Len(up[u].chunks),
                           !.pending = DbChunks(u, up[u].chunks, up[u].metadata,
                                                EmbedReply(Len(up[u].chunks)))]]
    /\ UNCHANGED <<convVars, chat, chunkVars, answer, dbVars, search>>

\* embed_texts returns a list of another length than the texts sent (one
\* vector fewer or one more): nothing in process_document compares the
\* lengths, zip stops at the shortest list.
EmbedMiscount(u) ==
    /\ up[u].pc = "embed"
    /\ \E k \in {Len(up[u].chunks) - 1, Len(up[u].chunks) + 1} :
           up' = [up EXCEPT ![u] =
                     [@ EXCEPT !.pc = "commit",
                               !.vectors = k,
                               !.pending = DbChunks(u, up[u].chunks, up[u].metadata,
                                                    EmbedReply(k))]]
    /\ UNCHANGED <<convVars, chat, chunkVars, answer, dbVars, search>>

\* embed_texts raises: process_document raises, upload_document catches.
EmbedFail(u) ==
    /\ up[u].pc = "embed"
    /\ up' = [up EXCEPT ![u] = Finished(RagFailureOutcome, "embed")]
    /\ UNCHANGED <<convVars, chat, chunkVars, answer, dbVars, search>>

\* session.commit() of process_document succeeds; the foreign key
\* document_chunks.document_id wants the document row to be there.
Commit(u) ==
    /\ up[u].pc = "commit"
    /\ \E d \in documents : d.id = u
    /\ document_chunks' = document_chunks \cup CommitRows(up[u].pending)
    /\ up' = [up EXCEPT ![u] = Finished("returned", "none")]
    /\ UNCHANGED <<convVars, chat, chunkVars, answer, documents, search>>

\* session.commit() raises: the transaction is rolled back.
CommitFail(u) ==
    /\ up[u].pc = "commit"
    /\ up' = [up EXCEPT ![u] = Finished(RagFailureOutcome, "store")]
    /\ UNCHANGED <<convVars, chat, chunkVars, answer, dbVars, search>>

\* The request is cancelled at an await: CancelledError is no Exception, it
\* passes every handler and the session is closed without a commit.
Cancel(u) ==
    /\ InFlight(up[u])
    /\ up' = [up EXCEPT ![u] = Finished("cancelled", "cancel")]
    /\ UNCHANGED <<convVars, chat, chunkVars, answer, dbVars, search>>

\* ------------------------------------------------------------------------
\* delete_conversation
\* ------------------------------------------------------------------------
\* Variant: the chunks of a deleted document stay behind.
ChunksAfterDeleteKept(doc_ids) == document_chunks

\* ON DELETE CASCADE of document_chunks.document_id (and the delete-orphan
\* cascade of Document.chunks): the chunks left when documents doc_ids go.
ChunksAfterDelete(doc_ids) == {ch \in document_chunks : ch.document_id \notin doc_ids}

\* delete_conversation of an existing conversation: the conversation, its
\* documents and their chunks go in one commit.  Documents and chunks
\* committed while the rows were being loaded go with it, by the cascade of
\* the foreign keys.
DeleteConversation(c) ==
    /\ c \in conversations
    /\ LET doc_ids == {d.id : d \in DocumentsOf(c)}
       IN /\ conversations' = conversations \ {c}
          /\ documents' = documents \ DocumentsOf(c)
          /\ document_chunks' = ChunksAfterDelete(doc_ids)
          /\ removed' = removed \cup doc_ids
    /\ UNCHANGED <<chat, chunkVars, answer, up, search>>

\* ------------------------------------------------------------------------
\* Hybrid search: search_chunks
\* ------------------------------------------------------------------------
\* Scores are exact fractions <<numerator, denominator>>.
Frac(n, d) == <<n, d>>
AddFrac(a, b) == <<a[1] * b[2] + b[1] * a[2], a[2] * b[2]>>
GtFrac(a, b) == a[1] * b[2] > b[1] * a[2]
EqFrac(a, b) == a[1] * b[2] = b[1] * a[2]

SeqToSet(q) == {q[i] : i \in 1..Len(q)}
Reverse(q) == [i \in 1..Len(q) |-> q[Len(q) + 1 - i]]
Prefix(q, n) == SubSeq(q, 1, Min2(n, Len(q)))

\* Python's sorted(..., reverse=True): descending and stable, an element goes
\* behind every element that does not compare below it.
SortedDesc(q, key) ==
    LET Gt(a, b) == GtFrac(key[a], key[b])
        RECURSIVE Ins(_, _, _)
        Ins(sorted, x, i) ==
            IF i > Len(sorted) THEN Append(sorted, x)
            ELSE IF Gt(x, sorted[i])
                 THEN SubSeq(sorted, 1, i - 1) \o <<x>> \o SubSeq(sorted, i, Len(sorted))
                 ELSE Ins(sorted, x, i + 1)
        RECURSIVE Go(_, _)
        Go(i, sorted) == IF i > Len(q) THEN sorted ELSE Go(i + 1, Ins(sorted, q[i], 1))
    IN Go(1, <<>>)

\* Chunk ids <<document, chunk_index>> in ascending order.
IdLess(a, b) == a[1] < b[1] \/ (a[1] = b[1] /\ a[2] < b[2])

Ascending(S) ==
    LET RECURSIVE Go(_, _)
        Go(rest, out) ==
            IF rest = {} THEN out
            ELSE LET m == CHOOSE x \in rest : \A y \in rest \ {x} : IdLess(x, y)
                 IN Go(rest \ {m}, Append(out, m))
    IN Go(S, <<>>)

\* The orders in which a query without ORDER BY, a tie in distance, or the
\* iteration of a Python set may deliver a set of ids.
Orders(S) == {Ascending(S), Reverse(Ascending(S))}

\* BM25 score of the j-th document of the corpus, for three kinds of query:
\* no term matches, later rows match better, scores with ties.
Bm25Patterns == {"flat", "rising", "mod3", "tail"}
Bm25Score(pattern, j) ==
    CASE pattern = "flat" -> 0
      [] pattern = "rising" -> j
      [] pattern = "tail" -> IF j > RANK_LIMIT THEN 2 ELSE IF j = 1 THEN 1 ELSE 0
      [] OTHER -> j % 3

\* dict {id: rank for rank, row in enumerate(rows)}
RankOf(q) == [x \in SeqToSet(q) |-> (CHOOSE i \in 1..Len(q) : q[i] = x) - 1]

\* What a statement of the session reads of table document_chunks: the rows
\* committed at the moment the statement runs.  The session factory sets no
\* other isolation, so two statements of one call may read different rows.
StatementReads == document_chunks

\* Variant: the join without its where clause on the conversation.
RowsInAnyScope(c) ==
    UNION {{[chunk |-> ch, label |-> d.label, filename |-> d.filename] :
                ch \in {x \in StatementReads : x.document_id = d.id}} :
           d \in documents}

\* The rows the chunk query loads: the conversation's chunks with the label
\* and filename of their document.
RowsInScope(c) ==
    UNION {{[chunk |-> ch, label |-> d.label, filename |-> d.filename] :
                ch \in {x \in StatementReads : x.document_id = d.id}} :
           d \in DocumentsOf(c)}

\* Variant: the vector query without its embedding IS NOT NULL condition.
EmbeddedIdsAll(c) ==
    {r.chunk.id : r \in RowsInScope(c)}

\* The ids the vector query can return: embedded chunks of the conversation.
EmbeddedIds(c) ==
    {r.chunk.id : r \in {x \in RowsInScope(c) : x.chunk.embedding # None}}

\* sorted(enumerate(bm25_scores), key=score, reverse=True)[:20], as ids.
Bm25Ranked(chunk_ids, pattern) ==
    LET idx == [j \in 1..Len(chunk_ids) |-> j]
        ranked == SortedDesc(idx, [j \in 1..Len(chunk_ids) |-> Frac(Bm25Score(pattern, j), 1)])
    IN [r \in 1..Min2(RANK_LIMIT, Len(ranked)) |-> chunk_ids[ranked[r]]]

\* Variant: ranks counted from 1.
RrfTermOneBased(ranks, cid) ==
    IF cid \in DOMAIN ranks THEN Frac(1, RRF_K + ranks[cid] + 1) ELSE Frac(0, 1)

\* One term of the fused score.
RrfTerm(ranks, cid) ==
    IF cid \in DOMAIN ranks THEN Frac(1, RRF_K + ranks[cid]) ELSE Frac(0, 1)

\* Variant: the better of the two terms instead of their sum.
RrfScoresBest(vector_ranks, bm25_ranks) ==
    [cid \in (DOMAIN vector_ranks) \cup (DOMAIN bm25_ranks) |->
        IF GtFrac(RrfTerm(vector_ranks, cid), RrfTerm(bm25_ranks, cid))
        THEN RrfTerm(vector_ranks, cid) ELSE RrfTerm(bm25_ranks, cid)]

RrfScores(vector_ranks, bm25_ranks) ==
    [cid \in (DOMAIN vector_ranks) \cup (DOMAIN bm25_ranks) |->
        AddFrac(RrfTerm(vector_ranks, cid), RrfTerm(bm25_ranks, cid))]

\* sorted(rrf_scores.keys(), key=score, reverse=True)[:top_k]; key_order is
\* the order in which the dict was filled (the iteration of a set).
TopIds(rrf_scores, key_order, top_k) ==
    Prefix(SortedDesc(key_order, rrf_scores), top_k)

SearchResult(row, score) ==
    [chunk_id |-> row.chunk.id,
     document_id |-> row.chunk.document_id,
     doc_label |-> row.label,
     doc_filename |-> row.filename,
     content |-> row.chunk.content,
     context_text |-> row.chunk.context_text,
     page_number |-> row.chunk.page_number,
     section_header |-> row.chunk.section_header,
     score |-> score]

\* The result list: ids that are not in chunk_map are skipped.
BuildResults(top_ids, rows, rrf_scores) ==
    LET known == SelectSeq(top_ids, LAMBDA cid : \E j \in 1..Len(rows) : rows[j].chunk.id = cid)
        RowOf(cid) == rows[CHOOSE j \in 1..Len(rows) : rows[j].chunk.id = cid]
    IN [r \in 1..Len(known) |-> SearchResult(RowOf(known[r]), rrf_scores[known[r]])]

NoScores == [cid \in {} |-> Frac(0, 1)]

IdleSearch ==
    [pc |-> "idle", conversation_id |-> 0, removed_before |-> {}, top_k |-> 0, embed_calls |-> 0,
     embed_error |-> FALSE,
     rows |-> <<>>, vector_rows |-> <<>>, bm25_ranked |-> <<>>,
     rrf_scores |-> NoScores, results |-> <<>>]

\* search_chunks is called: embed_texts([query]) is awaited.
SearchCall(TopKs) ==
    /\ search.pc \in {"idle", "returned", "raised"}
    /\ \E c \in Convs, k \in TopKs :
           search' = [IdleSearch EXCEPT !.pc = "embed", !.conversation_id = c,
                                        !.removed_before = removed, !.top_k = k]
    /\ UNCHANGED <<convVars, chat, chunkVars, answer, dbVars, up>>

\* embed_texts returns the query's vector.
SearchEmbedOk ==
    /\ search.pc = "embed"
    /\ search' = [search EXCEPT !.pc = "load", !.embed_calls = @ + 1]
    /\ UNCHANGED <<convVars, chat, chunkVars, answer, dbVars, up>>

\* embed_texts returns an empty list: search_chunks returns [].
SearchEmbedEmpty ==
    /\ search.pc = "embed"
    /\ search' = [search EXCEPT !.pc = "returned", !.embed_calls = @ + 1]
    /\ UNCHANGED <<convVars, chat, chunkVars, answer, dbVars, up>>

\* embed_texts raises: nothing in search_chunks catches it.
SearchEmbedFail ==
    /\ search.pc = "embed"
    /\ search' = [search EXCEPT !.pc = "raised", !.embed_calls = @ + 1,
                                !.embed_error = TRUE]
    /\ UNCHANGED <<convVars, chat, chunkVars, answer, dbVars, up>>

\* The chunk query: all rows of the conversation, [] returned if none.
SearchLoad ==
    /\ search.pc = "load"
    /\ LET found == RowsInScope(search.conversation_id)
       IN IF found = {}
          THEN search' = [search EXCEPT !.pc = "returned"]
          ELSE \E order \in Orders({r.chunk.id : r \in found}) :
                   search' = [search EXCEPT
                       !.pc = "vector",
                       !.rows = [j \in 1..Len(order) |->
                                    CHOOSE r \in found : r.chunk.id = order[j]]]
    /\ UNCHANGED <<convVars, chat, chunkVars, answer, dbVars, up>>

\* The vector query (LIMIT 20), then BM25, fusion and the result list.
SearchRank ==
    /\ search.pc = "vector"
    /\ \E vorder \in Orders(EmbeddedIds(search.conversation_id)), pattern \in Bm25Patterns :
           LET vector_rows == Prefix(vorder, RANK_LIMIT)
               chunk_ids == [j \in 1..Len(search.rows) |-> search.rows[j].chunk.id]
               bm25_ranked == Bm25Ranked(chunk_ids, pattern)
               rrf_scores == RrfScores(RankOf(vector_rows), RankOf(bm25_ranked))
           IN \E key_order \in Orders(DOMAIN rrf_scores) :
                  search' = [search EXCEPT
                      !.pc = "returned",
                      !.vector_rows = vector_rows,
                      !.bm25_ranked = bm25_ranked,
                      !.rrf_scores = rrf_scores,
                      !.results = BuildResults(TopIds(rrf_scores, key_order, search.top_k),
                                               search.rows, rrf_scores)]
    /\ UNCHANGED <<convVars, chat, chunkVars, answer, dbVars, up>>

\* The only caller, the search_documents tool, passes top_k = 10.
ToolTopK == {10}
AnyTopK == {1, 3, 10}

\* ------------------------------------------------------------------------
\* Citations in an answer text
\* ------------------------------------------------------------------------
\* An answer text is a sequence of pieces: an opening tag that CITE_RE's
\* head matches (<cite doc="d" page="p"> with or without section="s"; section
\* None stands for no section attribute), another piece that holds the
\* letters "<cite" (an opening tag without page, say), a closing </cite>, or
\* text without any tag.
Tok(k, doc, page, section) == [k |-> k, doc |-> doc, page |-> page, section |-> section]
OpenTag(doc, page, section) == Tok("open", doc, page, section)
BareTag == Tok("bare", "", 0, None)
CloseTag == Tok("close", "", 0, None)
Txt == Tok("txt", "", 0, None)

OpenTags ==
    {OpenTag("A", 1, None), OpenTag("A", 2, EmptyStr), OpenTag("B", 2, <<"s">>),
     OpenTag("Z", 1, None)}

AnswerTokens == OpenTags \cup {BareTag, CloseTag, Txt}

Answers == UNION {[1..n -> AnswerTokens] : n \in 0..MaxCite}

\* Variant: (.*)</cite>, the greedy form, runs to the last </cite>.
NextCloseGreedy(text, i) ==
    LET js == {j \in (i + 1)..Len(text) : text[j].k = "close"}
    IN IF js = {} THEN 0 ELSE CHOOSE j \in js : \A h \in js : j >= h

\* (.*?)</cite> with DOTALL: the tag's text runs to the first </cite> behind
\* the head, whatever lies between; 0 when there is none.
NextClose(text, i) ==
    LET js == {j \in (i + 1)..Len(text) : text[j].k = "close"}
    IN IF js = {} THEN 0 ELSE CHOOSE j \in js : \A h \in js : j <= h

\* CITE_RE.finditer: the matches from left to right, none overlapping.
CITE_RE(text) ==
    LET RECURSIVE Scan(_, _)
        Scan(i, matches) ==
            IF i > Len(text) THEN matches
            ELSE IF text[i].k = "open" /\ NextClose(text, i) # 0
                 THEN Scan(NextClose(text, i) + 1,
                           Append(matches, [start |-> i, end |-> NextClose(text, i)]))
                 ELSE Scan(i + 1, matches)
    IN Scan(1, <<>>)

Citation(text, m) ==
    [doc_label |-> text[m.start].doc,
     page |-> text[m.start].page,
     section |-> IF text[m.start].section \in {None, EmptyStr}
                 THEN None ELSE text[m.start].section,
     text |-> SubSeq(text, m.start + 1, m.end - 1)]

extract_citations(response) ==
    LET ms == CITE_RE(response)
    IN [r \in 1..Len(ms) |-> Citation(response, ms[r])]

\* _replace: the reference "[doc, section, p.page]", or "[doc, p.page]" when
\* the section is absent or empty.
Reference(head) ==
    Tok("ref", head.doc, head.page,
        IF head.section \in {None, EmptyStr} THEN None ELSE head.section)

\* CITE_RE.sub: every match becomes its text followed by the reference; the
\* rest of the text stays.
strip_cite_tags(text) ==
    LET ms == CITE_RE(text)
        RECURSIVE Sub(_, _, _)
        Sub(i, r, out) ==
            IF i > Len(text) THEN out
            ELSE IF r <= Len(ms) /\ ms[r].start = i
                 THEN Sub(ms[r].end + 1, r + 1,
                          out \o SubSeq(text, i + 1, ms[r].end - 1)
                              \o <<Reference(text[i])>>)
                 ELSE Sub(i + 1, r, Append(out, text[i]))
    IN Sub(1, 1, <<>>)

count_sources_cited(response) == Len(extract_citations(response))

\* A corpus is the set of <<label, page>> of its chunks.
Corpora == {{}, {<<"A", 1>>}, {<<"A", 1>>, <<"B", 2>>}}
doc_label_set(corpus) == {c[1] : c \in corpus}
\* Variant: the pages of the whole corpus, whatever the label.
pages_of_any_doc(corpus, label) == {c[2] : c \in corpus}

pages_for_doc(corpus, label) == {c[2] : c \in {x \in corpus : x[1] = label}}

score_citations(response, corpus) ==
    LET citations == extract_citations(response)
        doc_valid(c) == c.doc_label \in doc_label_set(corpus)
        page_valid(c) == doc_valid(c) /\ c.page \in pages_for_doc(corpus, c.doc_label)
        details == [r \in 1..Len(citations) |->
                       [doc |-> citations[r].doc_label,
                        page |-> citations[r].page,
                        doc_valid |-> doc_valid(citations[r]),
                        page_valid |-> page_valid(citations[r]),
                        grounded |-> doc_valid(citations[r]) /\ page_valid(citations[r])]]
    IN [count |-> Len(citations),
        grounded |-> Cardinality({r \in 1..Len(details) : details[r].grounded}),
        details |-> details]

IdleAnswer ==
    [pc |-> "unused", text |-> <<>>, corpus |-> {}, citations |-> <<>>,
     stripped |-> <<>>, count |-> 0,
     score |-> [count |-> 0, grounded |-> 0, details |-> <<>>]]

ExtractCitations ==
    /\ answer.pc = "input"
    /\ answer' = [answer EXCEPT !.pc = "extracted",
                                !.citations = extract_citations(answer.text)]
    /\ UNCHANGED <<convVars, chat, chunkVars, dbVars, up, search>>

StripCiteTags ==
    /\ answer.pc = "input"
    /\ answer' = [answer EXCEPT !.pc = "stripped",
                                !.stripped = strip_cite_tags(answer.text)]
    /\ UNCHANGED <<convVars, chat, chunkVars, dbVars, up, search>>

CountSourcesCited ==
    /\ answer.pc = "input"
    /\ answer' = [answer EXCEPT !.pc = "counted",
                                !.count = count_sources_cited(answer.text)]
    /\ UNCHANGED <<convVars, chat, chunkVars, dbVars, up, search>>

ScoreCitations ==
    /\ answer.pc = "input"
    /\ \E corpus \in Corpora :
           answer' = [answer EXCEPT !.pc = "scored",
                                    !.corpus = corpus,
                                    !.score = score_citations(answer.text, corpus)]
    /\ UNCHANGED <<convVars, chat, chunkVars, dbVars, up, search>>

\* ------------------------------------------------------------------------
\* Conversations and the send_message stream before any request
\* ------------------------------------------------------------------------
\* Every conversation of the model exists and no document was deleted.
AllConversations == conversations = Convs /\ removed = {}

IdleChat ==
    [pc |-> "idle", conversation_id |-> 0, has_documents |-> FALSE, status_queue |-> <<>>,
     tool_calls |-> <<>>, parts |-> <<>>, events |-> <<>>, full_response |-> <<>>,
     message |-> None]

\* ------------------------------------------------------------------------
\* The chat agent and the send_message stream
\* ------------------------------------------------------------------------
\* chat_agent = Agent(model, system_prompt, deps_type): no builtin tool is
\* passed; @chat_agent.tool registers search_documents.
BuiltinTools == {}
FunctionTools == {"search_documents"}
AgentTools == BuiltinTools \cup FunctionTools

\* A string is a sequence of pieces; a status message is its fixed beginning
\* followed by what was filled in.
StatusText(prefix, arg) == <<prefix, arg>>

\* What running a tool puts on deps.status_queue: search_documents puts
\* "Searching: <query>" and "Found <n> results across ..."; nothing in the
\* code puts a message for any other tool.
ToolStatuses(tool, n) ==
    IF tool = "search_documents"
    THEN <<StatusText("Searching: ", <<"query">>), StatusText("Found ", n)>>
    ELSE <<>>

\* One SSE event.
Event(type, content) == [type |-> type, content |-> content]

StatusEvents(queue) == [i \in 1..Len(queue) |-> Event("status", queue[i])]

\* The text parts of a final model response: 1..MaxParts pieces.
TextParts == UNION {[1..n -> {<<"answer">>, <<"more">>}] : n \in 1..MaxParts}

error_msg == <<"I'm sorry, an error occurred while generating a response. Please try again.">>

\* String concatenation of a list of strings.
Concat(strs) ==
    LET RECURSIVE Go(_)
        Go(i) == IF i > Len(strs) THEN <<>> ELSE strs[i] \o Go(i + 1)
    IN Go(1)

\* send_message up to the first event of event_stream: the status event
\* "Searching documents..." when the conversation has documents.
SendMessage ==
    /\ chat.pc = "idle"
    /\ \E c \in conversations :
           LET has_documents == DocumentsOf(c) # {}
           IN chat' = [IdleChat EXCEPT
                  !.pc = "agent",
                  !.conversation_id = c,
                  !.has_documents = has_documents,
                  !.events = IF has_documents
                             THEN <<Event("status", <<"Searching documents...">>)>>
                             ELSE <<>>]
    /\ UNCHANGED <<convVars, chunkVars, answer, dbVars, up, search>>

\* A node of the run whose model response calls a tool: the queue is drained
\* into status events, then the tool runs and fills the queue again.
AgentToolNode ==
    /\ chat.pc = "agent"
    /\ Len(chat.tool_calls) < MaxToolCalls
    /\ \E tool \in AgentTools, n \in 0..1 :
           chat' = [chat EXCEPT
               !.events = @ \o StatusEvents(chat.status_queue),
               !.status_queue = ToolStatuses(tool, n),
               !.tool_calls = Append(@, tool)]
    /\ UNCHANGED <<convVars, chunkVars, answer, dbVars, up, search>>

\* The final node (text parts, no tool part): the queue is drained, the text
\* parts are about to be yielded one by one.
AgentFinalNode ==
    /\ chat.pc = "agent"
    /\ \E parts \in TextParts :
           chat' = [chat EXCEPT
               !.pc = "text",
               !.events = @ \o StatusEvents(chat.status_queue),
               !.status_queue = <<>>,
               !.parts = parts]
    /\ UNCHANGED <<convVars, chunkVars, answer, dbVars, up, search>>

\* yield part.content: event_stream appends the chunk to full_response and
\* sends a content event.
YieldText ==
    /\ chat.pc = "text"
    /\ chat.parts # <<>>
    /\ chat' = [chat EXCEPT
           !.parts = Tail(@),
           !.full_response = @ \o Head(chat.parts),
           !.events = Append(@, Event("content", Head(chat.parts)))]
    /\ UNCHANGED <<convVars, chunkVars, answer, dbVars, up, search>>

\* The run and the agent session end without error.
PipelineEnds ==
    /\ chat.pc = "text"
    /\ chat.parts = <<>>
    /\ chat' = [chat EXCEPT !.pc = "save"]
    /\ UNCHANGED <<convVars, chunkVars, answer, dbVars, up, search>>

\* except Exception: anything raised inside the try block (by the model
\* call, by a tool, by the run or the session closing), before or after
\* content was sent: full_response is replaced by error_msg, which is sent
\* as a content event.
PipelineRaises ==
    /\ chat.pc \in {"agent", "text"}
    /\ chat' = [chat EXCEPT
           !.pc = "save",
           !.parts = <<>>,
           !.full_response = error_msg,
           !.events = Append(@, Event("content", error_msg))]
    /\ UNCHANGED <<convVars, chunkVars, answer, dbVars, up, search>>

\* The assistant message is committed, then the message event and the done
\* event are sent.  (A failing title generation is caught and changes
\* neither.)
SaveMessage ==
    /\ chat.pc = "save"
    /\ chat.conversation_id \in conversations
    /\ chat' = [chat EXCEPT
           !.pc = "done",
           !.message = chat.full_response,
           !.events = @ \o <<Event("message", chat.full_response), Event("done", <<>>)>>]
    /\ UNCHANGED <<convVars, chunkVars, answer, dbVars, up, search>>

\* The conversation was deleted while the answer was streamed: the commit of
\* the assistant message violates the foreign key messages.conversation_id
\* and the stream ends there.
SaveMessageFail ==
    /\ chat.pc = "save"
    /\ chat.conversation_id \notin conversations
    /\ chat' = [chat EXCEPT !.pc = "raised"]
    /\ UNCHANGED <<convVars, chunkVars, answer, dbVars, up, search>>

NextChat ==
    \/ SendMessage
    \/ AgentToolNode
    \/ AgentFinalNode
    \/ YieldText
    \/ PipelineEnds
    \/ PipelineRaises
    \/ SaveMessage
    \/ SaveMessageFail
    \/ \E c \in Convs : DeleteConversation(c)

Init ==
    /\ extracted_text = <<>>
    /\ chunk_pc = "unused"
    /\ chunks = <<>>
    /\ documents = {}
    /\ document_chunks = {}
    /\ up = [u \in Uploads |-> IdleUpload]
    /\ search = IdleSearch
    /\ AllConversations
    /\ chat = IdleChat
    /\ answer = IdleAnswer

Ingest(u, TS, all) ==
    \/ UploadCount(u, TS)
    \/ UploadCommit(u)
    \/ ProcessDocument(u, all)
    \/ EmbedOk(u)
    \/ EmbedFail(u)
    \/ Commit(u)
    \/ CommitFail(u)
    \/ Cancel(u)

\* upload_document requests running concurrently.
Next == \E u \in Uploads : Ingest(u, DocTexts, FALSE)

Spec == Init /\ [][Next]_vars

\* ------------------------------------------------------------------------
\* One upload_document request alone, with every kind of reply
\* ------------------------------------------------------------------------
NextIngest == Ingest(1, MoreDocTexts, TRUE) \/ EmbedMiscount(1)

SpecIngest == Init /\ [][NextIngest]_vars

\* ------------------------------------------------------------------------
\* search_chunks alone, over an index of up to MaxRows chunks
\* ------------------------------------------------------------------------
\* The chunk rows of an earlier document (id 0) of n one-paragraph pages,
\* ingested without an enrichment failure.
IndexedDocument(n) ==
    {[id |-> <<0, i - 1>>, document_id |-> 0, chunk_index |-> i - 1,
      content |-> <<[k |-> "para", n |-> 0, tok |-> 30, pos |-> 2 * i]>>,
      context_text |-> <<"ctx", i>>, page_number |-> i,
      section_header |-> <<"sec", i>>, embedding |-> <<"vec">>, token_count |-> 30] :
        i \in 1..n}

\* Conversation 1 holds that document, labelled "Doc A".
InitStored(N, stored) ==
    /\ extracted_text = <<>>
    /\ chunk_pc = "unused"
    /\ chunks = <<>>
    /\ documents = {[id |-> 0, conversation_id |-> 1, filename |-> <<"file", 0>>,
                     label |-> _label_for_index(0),
                     extracted_text |-> [i \in 1..(2 * N) |->
                                            IF i % 2 = 1 THEN Marker(1) ELSE Para(30)]]}
    /\ document_chunks = stored
    /\ up = [u \in Uploads |-> IdleUpload]
    /\ search = IdleSearch
    /\ AllConversations
    /\ chat = IdleChat
    /\ answer = IdleAnswer

InitIndexed(N) == InitStored(N, IndexedDocument(N))

\* The same rows with no embedding on the last chunk: the embedding column is
\* nullable.
NullLast(n) ==
    {IF r.chunk_index = n - 1 THEN [r EXCEPT !.embedding = None] ELSE r :
        r \in IndexedDocument(n)}

InitSearch == \E n \in 0..MaxRows : InitIndexed(n) \/ InitStored(n, NullLast(n))

NextSearch ==
    \/ SearchCall(AnyTopK)
    \/ SearchEmbedOk
    \/ SearchEmbedEmpty
    \/ SearchEmbedFail
    \/ SearchLoad
    \/ SearchRank

SpecSearch == InitSearch /\ [][NextSearch]_vars

\* ------------------------------------------------------------------------
\* Searches running while one document is uploaded and ingested
\* ------------------------------------------------------------------------
InitRead == \E n \in 0..1 : InitIndexed(n)

NextRead ==
    \/ Ingest(1, DocTexts, FALSE)
    \/ EmbedMiscount(1)
    \/ SearchCall(ToolTopK)
    \/ SearchEmbedOk
    \/ SearchEmbedEmpty
    \/ SearchEmbedFail
    \/ SearchLoad
    \/ SearchRank

SpecRead == InitRead /\ [][NextRead]_vars

\* ------------------------------------------------------------------------
\* Deletion of conversations beside one ingestion and searches
\* ------------------------------------------------------------------------
NextDelete ==
    \/ Ingest(1, DocTexts, FALSE)
    \/ UploadCommitFail(1)
    \/ \E c \in Convs : DeleteConversation(c)
    \/ SearchCall(ToolTopK)
    \/ SearchEmbedOk
    \/ SearchEmbedEmpty
    \/ SearchEmbedFail
    \/ SearchLoad
    \/ SearchRank

SpecDelete == InitRead /\ [][NextDelete]_vars

\* ------------------------------------------------------------------------
\* One more upload to a conversation that holds 0..MaxDocs documents
\* ------------------------------------------------------------------------
\* Conversation 1 holds n documents without text, labelled in upload order.
InitLabel ==
    /\ extracted_text = <<>>
    /\ chunk_pc = "unused"
    /\ chunks = <<>>
    /\ \E n \in 0..MaxDocs :
           documents = {[id |-> 100 + i, conversation_id |-> 1, filename |-> <<"file", 100 + i>>,
                         label |-> _label_for_index(i), extracted_text |-> <<>>] :
                            i \in 0..(n - 1)}
    /\ document_chunks = {}
    /\ up = [u \in Uploads |-> IdleUpload]
    /\ search = IdleSearch
    /\ AllConversations
    /\ chat = IdleChat
    /\ answer = IdleAnswer

NextLabel == Ingest(1, DocTexts, FALSE) \/ UploadLabelFail(1)

SpecLabel == InitLabel /\ [][NextLabel]_vars

\* One send_message stream at a time, conversations deleted beside it.
SpecChat == InitRead /\ [][NextChat]_vars

\* ------------------------------------------------------------------------
\* The chunker as a state machine: one call on a bounded text
\* ------------------------------------------------------------------------
InitChunk ==
    /\ extracted_text \in Texts
    /\ chunk_pc = "input"
    /\ chunks = <<>>
    /\ documents = {}
    /\ document_chunks = {}
    /\ up = [u \in Uploads |-> IdleUpload]
    /\ search = IdleSearch
    /\ AllConversations
    /\ chat = IdleChat
    /\ answer = IdleAnswer

ChunkDocumentCall ==
    /\ chunk_pc = "input"
    /\ chunks' = chunk_document(extracted_text)
    /\ chunk_pc' = "done"
    /\ UNCHANGED <<convVars, chat, extracted_text, documents, document_chunks, up, search, answer>>

NextChunk == ChunkDocumentCall

SpecChunk == InitChunk /\ [][NextChunk]_vars

\* ------------------------------------------------------------------------
\* The citation functions on every answer text
\* ------------------------------------------------------------------------
InitCite ==
    /\ extracted_text = <<>>
    /\ chunk_pc = "unused"
    /\ chunks = <<>>
    /\ documents = {}
    /\ document_chunks = {}
    /\ up = [u \in Uploads |-> IdleUpload]
    /\ search = IdleSearch
    /\ AllConversations
    /\ chat = IdleChat
    /\ \E text \in Answers : answer = [IdleAnswer EXCEPT !.pc = "input", !.text = text]

NextCite ==
    \/ ExtractCitations
    \/ StripCiteTags
    \/ CountSourcesCited
    \/ ScoreCitations

SpecCite == InitCite /\ [][NextCite]_vars

\* ------------------------------------------------------------------------
\* Chunker: what the text itself says about pages and paragraphs
\* ------------------------------------------------------------------------
\* Position of the marker line that opens the page holding item i (0: the
\* text before the first marker).
PageStart(text, i) ==
    LET ms == {j \in 1..(i - 1) : text[j].k = "marker"}
    IN IF ms = {} THEN 0 ELSE CHOOSE j \in ms : \A l \in ms : l <= j

\* Page number of the page holding item i: the marker's number, page 1 for
\* text before the first marker.
PageOf(text, i) == IF PageStart(text, i) = 0 THEN 1 ELSE text[PageStart(text, i)].n

\* Positions of the non-blank paragraphs of page number n, in reading order.
PageParagraphs(text, n) ==
    LET RECURSIVE Go(_, _)
        Go(i, out) ==
            IF i > Len(text) THEN out
            ELSE IF text[i].k = "para" /\ PageOf(text, i) = n
                 THEN Go(i + 1, Append(out, i))
                 ELSE Go(i + 1, out)
    IN Go(1, <<>>)

Positions(parts) == [i \in 1..Len(parts) |-> parts[i].pos]

SumTokens(parts) ==
    LET RECURSIVE Go(_)
        Go(i) == IF i > Len(parts) THEN 0 ELSE _count_tokens(parts[i]) + Go(i + 1)
    IN Go(1)

\* Chunk j + 1 was cut from the same page as chunk j (a flush inside the
\* paragraph loop produced chunk j).
SamePage(text, cs, j) ==
    /\ j + 1 <= Len(cs)
    /\ PageStart(text, cs[j].content[1].pos) = PageStart(text, cs[j + 1].content[1].pos)

\* Chunk j starts with the paragraph carried over from chunk j - 1.
StartsWithOverlap(cs, j) ==
    /\ j > 1
    /\ cs[j].page_number = cs[j - 1].page_number
    /\ cs[j].content[1].pos = cs[j - 1].content[Len(cs[j - 1].content)].pos

\* The chunks of page number n, each without its carried-over first
\* paragraph, concatenated.
PageReassembled(cs, n) ==
    LET RECURSIVE Go(_, _)
        Go(j, out) ==
            IF j > Len(cs) THEN out
            ELSE IF cs[j].page_number # n THEN Go(j + 1, out)
            ELSE LET ps == Positions(cs[j].content)
                 IN Go(j + 1, out \o (IF StartsWithOverlap(cs, j) THEN Tail(ps) ELSE ps))
    IN Go(1, <<>>)

IsPrefix(s, t) == Len(s) <= Len(t) /\ \A i \in 1..Len(s) : s[i] = t[i]

\* C6: every chunk's token_count is at most the 500-token target, except a
\* chunk holding a paragraph that alone exceeds the target.
C6_TokenBudget ==
    chunk_pc = "done" =>
        \A j \in 1..Len(chunks) :
            \/ chunks[j].token_count <= CHUNK_TARGET_TOKENS
            \/ \E i \in 1..Len(chunks[j].content) :
                   _count_tokens(chunks[j].content[i]) > CHUNK_TARGET_TOKENS

\* C7: every chunk consists only of paragraphs of one page of the text and
\* carries that page's number; the two-page text with one short paragraph per
\* page gives exactly two chunks, numbered 1 and 2.
C7_NoPageSpan ==
    chunk_pc = "done" =>
        /\ \A j \in 1..Len(chunks) :
               LET c == chunks[j].content
               IN /\ \A i \in 1..Len(c) : c[i].k = "para"
                  /\ \A i \in 1..Len(c) :
                         PageStart(extracted_text, c[i].pos) = PageStart(extracted_text, c[1].pos)
                  /\ chunks[j].page_number = PageOf(extracted_text, c[1].pos)
        /\ extracted_text = <<Marker(1), Para(30), Marker(2), Para(30)>> =>
               /\ Len(chunks) = 2
               /\ chunks[1].page_number = 1 /\ Positions(chunks[1].content) = <<2>>
               /\ chunks[2].page_number = 2 /\ Positions(chunks[2].content) = <<4>>

\* C8: for every page, the page's chunks without their carried-over
\* paragraphs concatenate to exactly the page's non-blank paragraphs, in
\* order, each whole.
C8_Coverage ==
    chunk_pc = "done" =>
        \A n \in PageNumbers :
            PageReassembled(chunks, n) = PageParagraphs(extracted_text, n)

\* C9: after a flush the next chunk starts with the flushed chunk's last
\* paragraph iff that paragraph alone is at most 50 tokens, its tokens
\* counted; two consecutive chunks share at most one paragraph; and no
\* flushed chunk's whole content reappears as the start of the next chunk.
C9_OverlapPolicy ==
    chunk_pc = "done" =>
        \A j \in 1..Len(chunks) :
            SamePage(extracted_text, chunks, j) =>
                LET a == chunks[j].content
                    b == chunks[j + 1].content
                    last == a[Len(a)]
                IN /\ (_count_tokens(last) <= CHUNK_OVERLAP_TOKENS) <=> (b[1].pos = last.pos)
                   /\ chunks[j + 1].token_count = SumTokens(b)
                   /\ Cardinality({a[i].pos : i \in 1..Len(a)}
                                  \cap {b[i].pos : i \in 1..Len(b)}) <= 1
                   /\ ~IsPrefix(Positions(a), Positions(b))

\* The parts of C9 that describe the policy itself, without the claim that an
\* entire chunk is never duplicated.
C9_PolicyOnly ==
    chunk_pc = "done" =>
        \A j \in 1..Len(chunks) :
            SamePage(extracted_text, chunks, j) =>
                LET a == chunks[j].content
                    b == chunks[j + 1].content
                    last == a[Len(a)]
                IN /\ (_count_tokens(last) <= CHUNK_OVERLAP_TOKENS) <=> (b[1].pos = last.pos)
                   /\ chunks[j + 1].token_count = SumTokens(b)
                   /\ Cardinality({a[i].pos : i \in 1..Len(a)}
                                  \cap {b[i].pos : i \in 1..Len(b)}) <= 1

\* ------------------------------------------------------------------------
\* Enrichment and ingestion
\* ------------------------------------------------------------------------
\* The locals of request u are alive: the enrichment loop has run.
Enriched(u) == up[u].pc \in {"embed", "commit"}

\* The entry is the one a reply to the prompt for chunk i gives.
OwnResult(kind, i, meta) ==
    CASE kind = "object" ->
            /\ meta.context \in {EmptyStr, <<"ctx", i>>}
            /\ meta.section \in {None, <<"sec", i>>}
      [] kind = "text" -> meta = [context |-> <<"raw", i>>, section |-> None]
      [] OTHER -> meta = [context |-> EmptyStr, section |-> None]

\* C1: whatever the collaborator calls end in, generate_chunk_contexts returns
\* one entry per chunk, the i-th entry being the one produced for chunk i.
C1_IndexAlignment ==
    \A u \in Uploads :
        Enriched(u) =>
            /\ Len(up[u].metadata) = Len(up[u].chunks)
            /\ \A i \in 1..Len(up[u].chunks) :
                   OwnResult(up[u].replies[i].kind, i, up[u].metadata[i])

C1_Witness ==
    /\ up[1].pc = "embed"
    /\ Len(up[1].replies) = 3
    /\ up[1].replies[1].kind = "error"
    /\ up[1].replies[2].kind = "text"
    /\ up[1].replies[3].kind = "object"
    /\ up[1].metadata[1].context = EmptyStr
    /\ up[1].metadata[2].context = <<"raw", 2>>
    /\ up[1].metadata[3].context = <<"ctx", 3>>

\* C2: a failed call for chunk i gives chunk i the empty context and no
\* section; every later chunk still gets its own result; and the ingestion
\* goes on: the document's texts are embedded and a row is added to the
\* session for every chunk that got a vector, the failed ones included.
C2_EnrichFailureIsolated ==
    /\ \A u \in Uploads :
           Enriched(u) =>
               \A i \in 1..Len(up[u].chunks) :
                   up[u].replies[i].kind = "error" =>
                       /\ i \in DOMAIN up[u].metadata
                       /\ up[u].metadata[i] = [context |-> EmptyStr, section |-> None]
                       /\ \A j \in (i + 1)..Len(up[u].chunks) :
                              /\ j \in DOMAIN up[u].metadata
                              /\ OwnResult(up[u].replies[j].kind, j, up[u].metadata[j])
    /\ \A u \in Uploads :
           up[u].pc = "commit" =>
               /\ Len(up[u].pending) = Min2(Len(up[u].chunks), up[u].vectors)
               /\ \A i \in 1..Len(up[u].pending) :
                      /\ up[u].pending[i].chunk_index = i - 1
                      /\ up[u].pending[i].content = up[u].chunks[i].content
                      /\ up[u].replies[i].kind = "error" => up[u].pending[i].context_text = None

C2_Witness ==
    /\ up[1].pc = "commit"
    /\ Len(up[1].replies) = 3
    /\ up[1].replies[1].kind = "error"
    /\ up[1].replies[2].kind = "object"
    /\ up[1].replies[3].kind = "error"
    /\ up[1].pending[1].context_text = None
    /\ up[1].pending[2].context_text = <<"ctx", 2>>
    /\ up[1].pending[3].context_text = None

\* C5: when the embedding call of a document's ingestion fails, no chunk of
\* the document is stored, its document row stays, upload_document returns
\* without raising, and the chunks stored before are untouched.
C5_EmbedFailureKeepsDocument ==
    \A u \in Uploads :
        up[u].failure = "embed" =>
            /\ up[u].pc = "returned"
            /\ \E d \in documents : d.id = u
            /\ ~\E r \in document_chunks : r.document_id = u
            /\ \A d \in documents :
                   d.id = 0 =>
                       {r \in document_chunks : r.document_id = 0}
                           = IndexedDocument(Len(d.extracted_text) \div 2)

C5_Witness ==
    /\ up[1].failure = "embed"
    /\ up[1].pc = "returned"
    /\ \E d \in documents : d.id = 1 /\ d.extracted_text # <<>>
    /\ document_chunks = IndexedDocument(1)

\* ------------------------------------------------------------------------
\* Readers
\* ------------------------------------------------------------------------
\* The chunk ids of document d among the ids S a reader has seen.
SeenOf(d, S) == {cid \in S : cid[1] = d}

AllChunkIds(doc) == {<<doc.id, i - 1>> : i \in 1..Len(chunk_document(doc.extracted_text))}

NoneOrAll(doc, S) == SeenOf(doc.id, S) = {} \/ SeenOf(doc.id, S) = AllChunkIds(doc)

\* C4: whatever a reader sees of a document's chunks (the committed table at
\* any instant, the rows a search loaded, the ids its vector query returned)
\* is none of them or all of them; after a failed or cancelled ingestion none
\* is visible.
C4_AtomicIngestion ==
    /\ \A doc \in documents :
           /\ NoneOrAll(doc, {r.id : r \in document_chunks})
           /\ NoneOrAll(doc, {search.rows[j].chunk.id : j \in 1..Len(search.rows)})
           /\ NoneOrAll(doc, SeqToSet(search.vector_rows))
    /\ \A u \in Uploads :
           up[u].failure # "none" => ~\E r \in document_chunks : r.document_id = u

\* ------------------------------------------------------------------------
\* Search
\* ------------------------------------------------------------------------
\* C3: when embedding the query fails, search_chunks returns the empty list
\* and does not raise.
C3_EmbedFailureDegrades ==
    search.embed_error => (search.pc = "returned" /\ search.results = <<>>)

\* Position of x in a ranked list, counted from 0.
Rank0(q, x) == (CHOOSE i \in 1..Len(q) : q[i] = x) - 1

\* Sum of 1/(60 + rank) over the lists that hold the id.
FusedScore(vector_list, lexical_list, cid) ==
    LET v == IF cid \in SeqToSet(vector_list)
             THEN Frac(1, 60 + Rank0(vector_list, cid)) ELSE Frac(0, 1)
        l == IF cid \in SeqToSet(lexical_list)
             THEN Frac(1, 60 + Rank0(lexical_list, cid)) ELSE Frac(0, 1)
    IN AddFrac(v, l)

\* C10: every id of the vector top-20 or the lexical top-20 list has the
\* fused score sum of 1/(60 + rank) over the lists holding it; the results
\* are at most top_k, drawn from the fused ids, in descending order of fused
\* score, each carrying its fused score.
C10_ReciprocalRankFusion ==
    (search.pc = "returned" /\ search.rows # <<>>) =>
        LET fused == SeqToSet(search.vector_rows) \cup SeqToSet(search.bm25_ranked)
            res == search.results
        IN /\ Len(search.vector_rows) <= 20 /\ Len(search.bm25_ranked) <= 20
           /\ DOMAIN search.rrf_scores = fused
           /\ \A cid \in fused :
                  EqFrac(search.rrf_scores[cid],
                         FusedScore(search.vector_rows, search.bm25_ranked, cid))
           /\ Len(res) <= search.top_k
           /\ \A i \in 1..Len(res) :
                  /\ res[i].chunk_id \in fused
                  /\ EqFrac(res[i].score,
                            FusedScore(search.vector_rows, search.bm25_ranked, res[i].chunk_id))
           /\ \A i \in 1..Len(res) : \A j \in (i + 1)..Len(res) :
                  ~GtFrac(res[j].score, res[i].score)

\* More than 20 chunks in scope, so both lists are cut; top_k results; an id
\* held by both lists and an id held by one list only.
C10_Witness ==
    /\ search.pc = "returned"
    /\ Len(search.rows) > 20
    /\ search.top_k = 10
    /\ Len(search.results) = 10
    /\ \E cid \in SeqToSet(search.vector_rows) : cid \notin SeqToSet(search.bm25_ranked)
    /\ \E cid \in SeqToSet(search.vector_rows) : cid \in SeqToSet(search.bm25_ranked)
    /\ \E i \in 1..9 : GtFrac(search.results[i].score, search.results[i + 1].score)

\* The search has gone through the ranking and returned its results.
Ranked == search.pc = "returned" /\ search.rows # <<>>

InList(q, x) == x \in SeqToSet(q)

\* x sorts above y: its fused score is greater and, wherever y is in the
\* results, x stands before it.
SortsAbove(x, y) ==
    /\ GtFrac(search.rrf_scores[x], search.rrf_scores[y])
    /\ \A j \in 1..Len(search.results) :
           search.results[j].chunk_id = y =>
               \E i \in 1..(j - 1) : search.results[i].chunk_id = x

\* C11: a chunk at rank 0 of both the vector and the lexical list sorts above
\* every chunk held by one list only, and a chunk at vector rank 0 and lexical
\* rank 2 sorts above a chunk held only by the lexical list at rank 0.
C11_RrfMonotonicity ==
    Ranked =>
        LET v == search.vector_rows
            l == search.bm25_ranked
        IN \A x \in SeqToSet(v) \cap SeqToSet(l) :
               \A y \in (SeqToSet(v) \cup SeqToSet(l)) \ (SeqToSet(v) \cap SeqToSet(l)) :
                   /\ (Rank0(v, x) = 0 /\ Rank0(l, x) = 0) => SortsAbove(x, y)
                   /\ (Rank0(v, x) = 0 /\ Rank0(l, x) = 2 /\ InList(l, y) /\ Rank0(l, y) = 0)
                          => SortsAbove(x, y)

\* X at vector rank 0 and lexical rank 2, Y at lexical rank 0 and in no
\* vector list, both returned.
C11_Witness ==
    /\ Ranked
    /\ Len(search.vector_rows) >= 1 /\ Len(search.bm25_ranked) >= 3
    /\ search.bm25_ranked[3] = search.vector_rows[1]
    /\ ~InList(search.vector_rows, search.bm25_ranked[1])
    /\ \E i, j \in 1..Len(search.results) :
           /\ i < j
           /\ search.results[i].chunk_id = search.vector_rows[1]
           /\ search.results[j].chunk_id = search.bm25_ranked[1]

\* C12: results whose fused scores are exactly equal stand in the order of
\* their chunk ids, whatever the iteration order of the id set and the order
\* in which the rows were loaded.
C12_TieBreakById ==
    Ranked =>
        \A i \in 1..Len(search.results) : \A j \in (i + 1)..Len(search.results) :
            EqFrac(search.results[i].score, search.results[j].score) =>
                IdLess(search.results[i].chunk_id, search.results[j].chunk_id)

\* ------------------------------------------------------------------------
\* Citations
\* ------------------------------------------------------------------------
\* The well-formed tags of a text, by the place of their head: a head, text
\* without any tag, a closing </cite>.
WellFormedAt(text, i) ==
    /\ text[i].k = "open"
    /\ \E j \in (i + 1)..Len(text) :
           /\ text[j].k = "close"
           /\ \A h \in (i + 1)..(j - 1) : text[h].k = "txt"

WellFormedTags(text) == SelectSeq([i \in 1..Len(text) |-> i], LAMBDA i : WellFormedAt(text, i))

\* The letters "<cite" stand in a head and in a piece of the kind "bare".
HasCiteLiteral(out) == \E i \in 1..Len(out) : out[i].k \in {"open", "bare"}

OnlyWellFormed(text) ==
    \A i \in 1..Len(text) :
        /\ text[i].k # "bare"
        /\ text[i].k = "open" => WellFormedAt(text, i)

C14_GroundingCheck ==
    answer.pc = "scored" =>
        LET cited == extract_citations(answer.text)
            d == answer.score.details
            InScope(label) == \E c \in answer.corpus : c[1] = label
            PageOfDoc(label, page) == <<label, page>> \in answer.corpus
        IN /\ Len(d) = Len(cited)
           /\ answer.score.count = Len(cited)
           /\ \A r \in 1..Len(d) :
                  /\ d[r].doc = cited[r].doc_label /\ d[r].page = cited[r].page
                  /\ d[r].grounded <=> (InScope(d[r].doc) /\ PageOfDoc(d[r].doc, d[r].page))
                  /\ ~InScope(d[r].doc) => ~d[r].grounded
                  /\ ~PageOfDoc(d[r].doc, d[r].page) => ~d[r].grounded
           /\ answer.score.grounded = Cardinality({r \in 1..Len(d) : d[r].grounded})
           /\ answer.score.grounded <= answer.score.count

\* A grounded citation next to one whose page belongs to another document of
\* the corpus only.
C14_Witness ==
    /\ answer.pc = "scored"
    /\ answer.corpus = {<<"A", 1>>, <<"B", 2>>}
    /\ answer.score.count = 2
    /\ answer.score.grounded = 1
    /\ \E r \in 1..2 :
           /\ answer.score.details[r].doc = "A"
           /\ answer.score.details[r].page = 2
           /\ ~answer.score.details[r].grounded

\* The search call has ended, by a return or by an exception.
SearchEnded == search.pc \in {"returned", "raised"}

\* C15: a search over a scope without chunks returns the empty list, does
\* not raise and calls the embedder for the query at most once.
C15_EmptyScope ==
    (SearchEnded /\ RowsInScope(search.conversation_id) = {}) =>
        /\ search.pc = "returned"
        /\ search.results = <<>>
        /\ search.embed_calls <= 1

\* C16: a reply that is no JSON object (text that is no JSON, or JSON that is
\* a string, a number, a list or null) gives the metadata (the raw reply,
\* no section); a reply that is a JSON object gives its context and its
\* section, an empty or "null" section turned into no section.
C16_ReplyParsing ==
    \A u \in Uploads :
        Enriched(u) =>
            /\ Len(up[u].metadata) = Len(up[u].replies)
            /\ \A i \in 1..Len(up[u].replies) :
                   LET r == up[u].replies[i]
                       m == up[u].metadata[i]
                   IN /\ r.kind \in {"text", "nonobject"} =>
                             m = [context |-> r.raw, section |-> None]
                      /\ r.kind = "object" =>
                             /\ m.context = r.context
                             /\ m.section = IF r.section \in {None, EmptyStr, NullStr}
                                            THEN None ELSE r.section

\* The same without the replies that are JSON but no object.
C16_ObjectOrNoJson ==
    \A u \in Uploads :
        (Enriched(u) /\ \A i \in 1..Len(up[u].replies) : up[u].replies[i].kind # "nonobject")
            => \A i \in 1..Len(up[u].replies) :
                   LET r == up[u].replies[i]
                       m == up[u].metadata[i]
                   IN /\ r.kind = "text" => m = [context |-> r.raw, section |-> None]
                      /\ r.kind = "object" =>
                             /\ m.context = r.context
                             /\ m.section = IF r.section \in {None, EmptyStr, NullStr}
                                            THEN None ELSE r.section

\* ------------------------------------------------------------------------
\* Stored rows
\* ------------------------------------------------------------------------
ChunksOf(d) == {r \in document_chunks : r.document_id = d.id}

\* C17: every stored chunk belongs to exactly one stored document, and the
\* chunk_index values of a document's stored chunks are 0..n-1, each once, in
\* the order in which chunk_document read the chunks.
C17_DenseChunkIndex ==
    /\ \A r \in document_chunks :
           Cardinality({d \in documents : d.id = r.document_id}) = 1
    /\ \A d \in documents :
           LET n == Cardinality(ChunksOf(d))
               cs == chunk_document(d.extracted_text)
           IN /\ {r.chunk_index : r \in ChunksOf(d)} = 0..(n - 1)
              /\ n <= Len(cs)
              /\ \A r \in ChunksOf(d) : r.content = cs[r.chunk_index + 1].content

C17_Witness ==
    /\ \A u \in Uploads : up[u].pc = "returned"
    /\ \E d1, d2 \in documents :
           /\ d1.id # d2.id
           /\ d1.conversation_id = d2.conversation_id
           /\ Cardinality(ChunksOf(d1)) = 2
           /\ Cardinality(ChunksOf(d2)) = 2

\* The label of the k-th letter: 0 is "Doc A", 1 is "Doc B".
LetterLabel(k) == <<k>>

\* C18: a document gets its label once, when upload_document stores its row,
\* from the number of documents its conversation held when the request
\* counted them; no later step changes the label of a stored document.
C18_LabelAssignedOnce ==
    [][/\ \A u \in Uploads :
              (up[u].pc = "idle" /\ up'[u].pc = "counted") =>
                  up'[u].existing_count =
                      Cardinality({d \in documents :
                                      d.conversation_id = up'[u].conversation_id})
       /\ \A e \in documents' \ documents :
              /\ ~\E d \in documents : d.id = e.id
              /\ up[e.id].pc = "counted"
              /\ e.label = LetterLabel(up[e.id].existing_count)
       /\ \A d \in documents :
              \E e \in documents' : e.id = d.id /\ e.label = d.label
                                    /\ e.conversation_id = d.conversation_id
      ]_vars

\* Two documents of one conversation, the second counted after the first was
\* stored, both ingested.
C18_Witness ==
    /\ \A u \in Uploads : up[u].pc = "returned"
    /\ \E d1, d2 \in documents :
           /\ d1.conversation_id = d2.conversation_id
           /\ d1.label = LetterLabel(0)
           /\ d2.label = LetterLabel(1)
           /\ ChunksOf(d1) # {}

\* The ids of the rows the search loaded.
LoadedIds == {search.rows[j].chunk.id : j \in 1..Len(search.rows)}

\* C19: the vector ranking and the lexical ranking of one search call are
\* made over the same chunks: every id the vector query ranked is among the
\* rows loaded, and no ranked id is left out of the results for want of its
\* row.
C19_ConsistentSnapshot ==
    Ranked =>
        /\ SeqToSet(search.vector_rows) \subseteq LoadedIds
        /\ Cardinality(DOMAIN search.rrf_scores) <= search.top_k =>
               \A cid \in DOMAIN search.rrf_scores :
                   \E r \in 1..Len(search.results) : search.results[r].chunk_id = cid

\* The loaded chunks stored without an embedding.
NullEmbeddingIds ==
    {search.rows[j].chunk.id :
        j \in {i \in 1..Len(search.rows) : search.rows[i].chunk.embedding = None}}

\* C20: a stored chunk whose embedding is null has no vector rank, so its
\* fused score holds no vector term; it is scored in the lexical ranking like
\* every loaded chunk (it is in the lexical list whenever at most 20 chunks
\* are loaded), and a place in the lexical list gives it the fused score
\* 1/(60 + lexical rank).
C20_NullEmbeddingLexicalOnly ==
    Ranked =>
        \A cid \in NullEmbeddingIds :
            /\ ~InList(search.vector_rows, cid)
            /\ Len(search.rows) <= RANK_LIMIT => InList(search.bm25_ranked, cid)
            /\ InList(search.bm25_ranked, cid) =>
                   /\ cid \in DOMAIN search.rrf_scores
                   /\ EqFrac(search.rrf_scores[cid],
                             Frac(1, 60 + Rank0(search.bm25_ranked, cid)))
            /\ cid \in DOMAIN search.rrf_scores => InList(search.bm25_ranked, cid)

\* Beside embedded chunks that the vector query ranked, a chunk without
\* embedding is returned on its lexical score alone.
C20_Witness ==
    /\ Ranked
    /\ search.vector_rows # <<>>
    /\ \E r \in 1..Len(search.results) :
           /\ search.results[r].chunk_id \in NullEmbeddingIds
           /\ ~InList(search.vector_rows, search.results[r].chunk_id)
           /\ GtFrac(search.results[r].score, Frac(0, 1))

\* The label of a heading paragraph.
SectionLabel(para) == <<"section", para.n>>

IsHeading(para) == para.k = "para" /\ para.n # 0

\* The running current section after the paragraph at position pos of the
\* text: the label of the last heading at or before it, None before the
\* first heading.
CurrentSection(text, pos) ==
    LET hs == {i \in 1..pos : IsHeading(text[i])}
    IN IF hs = {} THEN None
       ELSE SectionLabel(text[CHOOSE i \in hs : \A j \in hs : j <= i])

LastPos(chunk) == chunk.content[Len(chunk.content)].pos

\* C21: every chunk the chunker emits carries as section_header the running
\* current section, the label of the last heading paragraph on or before the
\* chunk, also when that heading stands in an earlier chunk.
C21_RunningSection ==
    chunk_pc = "done" =>
        \A j \in 1..Len(chunks) :
            chunks[j].section_header = CurrentSection(extracted_text, LastPos(chunks[j]))

HasMarker(text) == \E i \in 1..Len(text) : text[i].k = "marker"

HasParagraph(text) == \E i \in 1..Len(text) : text[i].k = "para"

\* What C22 says of the chunks cut from a text.
PageSplitting(text, cs) ==
    /\ (\A i \in 1..Len(text) : text[i].k = "blank") => cs = <<>>
    /\ ~HasMarker(text) => \A j \in 1..Len(cs) : cs[j].page_number = 1
    /\ \A j \in 1..Len(cs) :
           LET first == cs[j].content[1].pos
           IN /\ PageStart(text, first) = 0 => cs[j].page_number = 1
              /\ PageStart(text, first) # 0 =>
                     cs[j].page_number = text[PageStart(text, first)].n
              /\ j < Len(cs) =>
                     PageStart(text, first) <= PageStart(text, cs[j + 1].content[1].pos)
    /\ \A j \in 1..Len(cs) : \E i \in 1..Len(cs[j].content) : cs[j].content[i].k = "para"
    /\ ~HasParagraph(text) => cs = <<>>
    /\ \A j \in 1..Len(cs) : \A i \in 1..Len(cs[j].content) : cs[j].content[i].k # "marker"

\* C22: empty or whitespace-only text gives no chunk; text without marker is
\* page 1; text before the first marker is page 1; the chunks of a marked
\* page carry the marker's number, pages in the order met; a page without a
\* non-blank paragraph gives no chunk, so a text of markers and blank pages
\* gives no chunk and a marker line is never chunk content.
C22_PageSplitting ==
    chunk_pc = "done" => PageSplitting(extracted_text, chunks)

\* The same holds of every text that has a non-blank paragraph.
C22_WithParagraph ==
    (chunk_pc = "done" /\ HasParagraph(extracted_text)) =>
        PageSplitting(extracted_text, chunks)

\* C23: no chunk of a deleted document remains in the store (every stored
\* chunk belongs to a document that is there), and a search called after a
\* deletion returns no chunk of a document deleted before the call.
C23_ChunksOwned ==
    /\ \A ch \in document_chunks :
           /\ ch.document_id \notin removed
           /\ \E d \in documents : d.id = ch.document_id
    /\ search.pc = "returned" =>
           \A r \in 1..Len(search.results) :
               search.results[r].document_id \notin search.removed_before

\* A document that had chunks stored was deleted with its conversation, and
\* a search called afterwards returned chunks of a document that is left.
C23_Witness ==
    /\ 0 \in search.removed_before
    /\ search.pc = "returned"
    /\ search.results # <<>>

\* The status events of the stream whose text begins with prefix.
StatusesWith(prefix) ==
    {i \in 1..Len(chat.events) :
        chat.events[i].type = "status" /\ chat.events[i].content[1] = prefix}

\* C24: the chat agent has the builtin tool web_search and the function tool
\* search_documents, and a chat in which the agent used web search has sent
\* at least one status message beginning with "Web search:".
C24_WebSearchTool ==
    /\ "web_search" \in BuiltinTools
    /\ "search_documents" \in FunctionTools
    /\ (chat.pc = "done" /\ \E i \in 1..Len(chat.tool_calls) : chat.tool_calls[i] = "web_search")
           => StatusesWith("Web search:") # {}

\* The contents of the content events of the stream, in order.
ContentsSent ==
    LET cs == SelectSeq(chat.events, LAMBDA e : e.type = "content")
    IN [i \in 1..Len(cs) |-> cs[i].content]

\* C30: a stream that has started ends with one message event followed by
\* one done event, and the content of the message persisted and sent in the
\* message event is the concatenation of the content events sent before it.
C30_MessageIsWhatWasStreamed ==
    chat.pc \in {"done", "raised"} =>
        LET n == Len(chat.events)
        IN /\ n >= 2
           /\ chat.events[n].type = "done"
           /\ chat.events[n - 1].type = "message"
           /\ \A i \in 1..(n - 2) : chat.events[i].type \notin {"message", "done"}
           /\ chat.message = chat.events[n - 1].content
           /\ chat.events[n - 1].content = Concat(ContentsSent)

\* The same of the streams whose pipeline did not raise after content was
\* sent and whose conversation is still there at the end.
C30_WithoutLateError ==
    (chat.pc = "done" /\ (chat.full_response = error_msg => Len(ContentsSent) = 1)) =>
        LET n == Len(chat.events)
        IN /\ n >= 2
           /\ chat.events[n].type = "done"
           /\ chat.events[n - 1].type = "message"
           /\ \A i \in 1..(n - 2) : chat.events[i].type \notin {"message", "done"}
           /\ chat.message = chat.events[n - 1].content
           /\ chat.events[n - 1].content = Concat(ContentsSent)

\* The closing </cite> of the well-formed tag whose head is at i.
CloseOf(text, i) ==
    CHOOSE j \in (i + 1)..Len(text) :
        text[j].k = "close" /\ \A h \in (i + 1)..(j - 1) : text[h].k = "txt"

\* The text with each well-formed tag rewritten to its quoted text followed
\* by the reference, everything else left as it is.
RewriteWellFormed(text) ==
    LET RECURSIVE Go(_, _)
        Go(i, out) ==
            IF i > Len(text) THEN out
            ELSE IF WellFormedAt(text, i)
                 THEN Go(CloseOf(text, i) + 1,
                         out \o SubSeq(text, i + 1, CloseOf(text, i) - 1)
                             \o <<Tok("ref", text[i].doc, text[i].page,
                                      IF text[i].section \in {None, EmptyStr}
                                      THEN None ELSE text[i].section)>>)
                 ELSE Go(i + 1, Append(out, text[i]))
    IN Go(1, <<>>)

\* C25: a malformed or incomplete tag (a head that is not CITE_RE's, a head
\* without its closing </cite>) is not matched: the citations are those of
\* the well-formed tags and no other, each with a non-empty doc_label, an
\* integer page and the tag's quoted text, and strip_cite_tags rewrites the
\* well-formed tags to "quoted [doc, section, p.N]" ("quoted [doc, p.N]"
\* without section) and leaves all other text unchanged.
C25_MalformedNotMatched ==
    LET tags == WellFormedTags(answer.text)
    IN /\ answer.pc = "extracted" =>
              /\ Len(answer.citations) = Len(tags)
              /\ \A r \in 1..Len(answer.citations) :
                     /\ answer.citations[r].doc_label # ""
                     /\ answer.citations[r].page \in Nat
                     /\ r <= Len(tags) =>
                            answer.citations[r].text =
                                SubSeq(answer.text, tags[r] + 1, CloseOf(answer.text, tags[r]) - 1)
       /\ answer.pc = "stripped" => answer.stripped = RewriteWellFormed(answer.text)

\* The same of the texts in which every head has its closing </cite> before
\* the next head.
C25_HeadsClosed ==
    (\A i \in 1..Len(answer.text) : answer.text[i].k = "open" => WellFormedAt(answer.text, i))
        => C25_MalformedNotMatched

\* The label sequence A, ..., Z, AA, AB, ..., ZZ, AAA, ...: the letters of the
\* label of 0-based index idx.
LabelSequence(idx) ==
    IF idx < 26 THEN <<idx>>
    ELSE IF idx < 26 + 26 * 26 THEN <<(idx - 26) \div 26, (idx - 26) % 26>>
    ELSE <<(idx - 702) \div 676, ((idx - 702) \div 26) % 26, (idx - 702) % 26>>

\* C26: for the index an upload computes its label from, _label_for_index
\* does not raise, gives the label of the sequence "Doc A", ..., "Doc Z",
\* "Doc AA", "Doc AB", ..., and gives no label that a smaller index has.
C26_LabelForIndex ==
    \A u \in Uploads :
        up[u].pc = "counted" =>
            LET idx == up[u].existing_count
            IN /\ _label_for_index(idx) # IndexError
               /\ _label_for_index(idx) = LabelSequence(idx)
               /\ \A j \in 0..(idx - 1) : _label_for_index(j) # _label_for_index(idx)

\* The same for the indices below 26 + 26 * 26.
C26_BelowTwoLetters ==
    \A u \in Uploads :
        (up[u].pc = "counted" /\ up[u].existing_count < 702) =>
            LET idx == up[u].existing_count
            IN /\ _label_for_index(idx) # IndexError
               /\ _label_for_index(idx) = LabelSequence(idx)
               /\ \A j \in 0..(idx - 1) : _label_for_index(j) # _label_for_index(idx)

\* C27: within one conversation no two documents have the same label, so a
\* doc_label names at most one document, also after uploads to the same
\* conversation that ran concurrently.
C27_UniqueLabels ==
    \A d1, d2 \in documents :
        (d1.conversation_id = d2.conversation_id /\ d1.label = d2.label) => d1.id = d2.id

\* C28: every result of a search is a chunk of a document of the
\* conversation searched, no chunk id stands twice in the results, and each
\* result carries the label and the filename of the document its chunk
\* belongs to.
C28_ScopeIsolation ==
    search.pc = "returned" =>
        /\ \A r \in 1..Len(search.results) :
               LET res == search.results[r]
               IN /\ res.chunk_id[1] = res.document_id
                  /\ \E d \in documents :
                         /\ d.id = res.document_id
                         /\ d.conversation_id = search.conversation_id
                         /\ res.doc_label = d.label
                         /\ res.doc_filename = d.filename
        /\ \A r1, r2 \in 1..Len(search.results) :
               search.results[r1].chunk_id = search.results[r2].chunk_id => r1 = r2

\* A search of one conversation returned two results while chunks of a
\* document of another conversation were stored.
C28_Witness ==
    /\ search.pc = "returned"
    /\ Len(search.results) = 2
    /\ \E ch \in document_chunks, d \in documents :
           /\ d.id = ch.document_id
           /\ d.conversation_id # search.conversation_id

\* C29: whatever the embedding collaborator replies, process_document stores
\* one record per chunk of chunk_document, the record at each position made
\* of the chunk, the metadata and the embedding of that position, or it
\* stores no chunk of the document; never some of the chunks only.
C29_AllChunksOrNone ==
    \A u \in Uploads :
        /\ up[u].pc = "commit" =>
               \/ up[u].pending = <<>>
               \/ /\ Len(up[u].pending) = Len(up[u].chunks)
                  /\ \A i \in 1..Len(up[u].pending) :
                         /\ up[u].pending[i].chunk_index = i - 1
                         /\ up[u].pending[i].content = up[u].chunks[i].content
                         /\ up[u].pending[i].section_header = up[u].metadata[i].section
                         /\ up[u].pending[i].embedding # None
        /\ \A d \in documents :
               d.id = u =>
                   \/ ChunksOf(d) = {}
                   \/ Cardinality(ChunksOf(d)) = Len(chunk_document(d.extracted_text))
====
